---- MODULE Spec2Model ----
(***************************************************************************)
(* Model of the cerebro-dashboard backend: the account directory          *)
(* (backend/services/accounts.py and backend/routers/accounts.py) over    *)
(* the MySQL `account` table and the PostgreSQL `account_meta` table, the *)
(* SRP6 credentials it provisions, and the event relay of                 *)
(* backend/routers/monitor.py over the Redis channel cerebro:events.      *)
(*                                                                         *)
(* Text that the code inspects character by character (usernames, search  *)
(* queries) is a sequence of one-character strings; text that the code    *)
(* only stores and compares (categories, notes, tags) is a TLA+ string.   *)
(* An optional argument is a sequence of length 0 (Python None) or 1.     *)
(***************************************************************************)
EXTENDS Integers, Sequences, FiniteSets, TLC

VARIABLES
    account,        \* MySQL table `account`: rows in id order (AUTO_INCREMENT, never deleted)
    account_meta,   \* PostgreSQL table `account_meta`: a set of rows
    resp,           \* the last request handled and the response it produced
    account_access, \* MySQL table `account_access`: a set of rows
    creating,       \* create_account calls in progress, by request slot
    published,      \* the messages published on cerebro:events, in publish order
    subs,           \* the websocket_monitor connections, by connection
    meta_updated_at, \* the created_at and updated_at columns of `account_meta`, by row
    clock,          \* what NOW() returns in PostgreSQL
    setting,        \* set_account_meta calls in progress, by request slot
    pool,           \* accounts.py's global _pool: 0 for None, else the pool's number
    pools,          \* the number of pools aiomysql.create_pool has created
    getting,        \* get_pool calls in progress, by caller
    conn_db,        \* the database selected on each connection of the MySQL pool
    health          \* the last result of get_health and the checks it was made from

vars ==
    <<account, account_meta, resp, account_access, creating, published, subs,
      meta_updated_at, clock, setting, pool, pools, getting, conn_db, health>>

\* What the handlers of the account table and the relay leave alone.
auxVars == <<clock, setting, pool, pools, getting, conn_db, health>>

\* What the account handlers of one request at a time leave alone.
raceVars == <<creating>>
relayVars == <<published, subs>>

-----------------------------------------------------------------------------
(* Optional values *)

None == <<>>
Some(v) == <<v>>
IsNone(x) == x = <<>>
Get(x) == x[1]

-----------------------------------------------------------------------------
(* Character data *)

\* str.upper() on one character.
LowerCase == <<"a","b","c","d","e","f","g","h","i","j","k","l","m",
               "n","o","p","q","r","s","t","u","v","w","x","y","z">>
UpperCase == <<"A","B","C","D","E","F","G","H","I","J","K","L","M",
               "N","O","P","Q","R","S","T","U","V","W","X","Y","Z">>

UpperChar(c) ==
    IF \E i \in 1..Len(LowerCase) : LowerCase[i] = c
    THEN UpperCase[CHOOSE i \in 1..Len(LowerCase) : LowerCase[i] = c]
    ELSE c

\* str.upper()
Upper(s) == [i \in 1..Len(s) |-> UpperChar(s[i])]

\* The characters of the model in ascending code-point order; the ORDER BY
\* of a username column compares by this order (for these characters the
\* binary, general_ci and unicode_ci collations agree, lower case aside).
CodeOrder == <<"!", "%", "0","1","2","3","4","5","6","7","8","9">>
             \o UpperCase \o <<"_">> \o LowerCase

CharCode(c) == CHOOSE i \in 1..Len(CodeOrder) : CodeOrder[i] = c

RECURSIVE StrLess(_, _)
\* a < b in the column's sort order
StrLess(a, b) ==
    IF b = <<>> THEN FALSE
    ELSE IF a = <<>> THEN TRUE
    ELSE IF Head(a) = Head(b) THEN StrLess(Tail(a), Tail(b))
    ELSE CharCode(Head(a)) < CharCode(Head(b))

\* str.startswith(prefix)
StartsWith(s, prefix) ==
    /\ Len(prefix) <= Len(s)
    /\ SubSeq(s, 1, Len(prefix)) = prefix

RECURSIVE Like(_, _)
\* SQL `s LIKE p`: % matches any run of characters, _ any one character.
Like(s, p) ==
    IF p = <<>> THEN s = <<>>
    ELSE IF Head(p) = "%"
         THEN Like(s, Tail(p)) \/ (s # <<>> /\ Like(Tail(s), p))
    ELSE /\ s # <<>>
         /\ (Head(p) = "_" \/ Head(p) = Head(s))
         /\ Like(Tail(s), Tail(p))

\* The reserved bot prefix of the code's 'RNDBOT%' patterns and startswith tests.
BOT_PREFIX == <<"R","N","D","B","O","T">>

\* SQL: username LIKE 'RNDBOT%'  (and 'RNDBOT%%', which matches the same strings)
LikeBot(username) == Like(username, BOT_PREFIX \o <<"%">>)

\* Python: account['username'].startswith('RNDBOT')
IsBotName(username) == StartsWith(username, BOT_PREFIX)

\* CATEGORIES
CATEGORIES == {"friend", "bot", "admin", "test", "unknown"}

-----------------------------------------------------------------------------
(* SRP6 credential derivation. The hash, the byte conversions and the       *)
(* modular exponentiation are uninterpreted: a value is the term that       *)
(* computes it, so two values are equal exactly when they are computed the  *)
(* same way from the same inputs.                                           *)

\* g = 7
SRP_G == 7

\* N = int("894B...9BB7", 16)
SRP_N == "894B645E89E1535BBDAD5B8B290650530801B18EBFBF5E8FAB3C82872A3E9BB7"

\* hashlib.sha1(data).digest()
SHA1(data) == <<"sha1", data>>

\* salt + h1 (bytes)
BytesCat(a, b) == <<"cat", a, b>>

\* int.from_bytes(b, 'little')
IntFromBytesLittle(b) == <<"int_le", b>>

\* pow(g, x, N)
PowMod(g, x, n) == <<"pow", g, x, n>>

\* v.to_bytes(32, 'little')
ToBytes32Little(v) == <<"bytes32_le", v>>

\* f"{username_upper}:{password_upper}".encode()
UserColonPass(username_upper, password_upper) ==
    username_upper \o <<":">> \o password_upper

\* The verifier create_account computes from username.upper(),
\* password.upper() and the salt it drew.
CreateVerifier(username_upper, password_upper, salt) ==
    LET h1 == SHA1(UserColonPass(username_upper, password_upper))
        h2 == SHA1(BytesCat(salt, h1))
        x  == IntFromBytesLittle(h2)
        v  == PowMod(SRP_G, x, SRP_N)
    IN  ToBytes32Little(v)

\* ChangeVerifier reading h2 as a big-endian integer.
ChangeVerifier_BigEndian(username_upper, password_upper, salt) ==
    LET h1 == SHA1(UserColonPass(username_upper, password_upper))
        h2 == SHA1(BytesCat(salt, h1))
        x  == <<"int_be", h2>>
        v  == PowMod(SRP_G, x, SRP_N)
    IN  ToBytes32Little(v)

\* The verifier change_password computes from row['username'].upper(),
\* new_password.upper() and the salt it drew.
ChangeVerifier(username_upper, password_upper, salt) ==
    LET h1 == SHA1(UserColonPass(username_upper, password_upper))
        h2 == SHA1(BytesCat(salt, h1))
        x  == IntFromBytesLittle(h2)
        v  == PowMod(SRP_G, x, SRP_N)
    IN  ToBytes32Little(v)

-----------------------------------------------------------------------------
(* Bounds and request inputs *)

\* The number of rows the `account` table may hold.
MaxAccounts == 2

ALICE   == <<"A","L","I","C","E">>
ALICEX  == <<"A","L","I","C","E","X">>
BOB     == <<"B","O","B">>
RNDBOT7 == <<"R","N","D","B","O","T","7">>
PCT_AB  == <<"%","A","B">>
BANG_PCT_A == <<"!","%","A">>

\* Passwords as callers type them, and the values secrets.token_bytes(32)
\* may return.
PASS   == <<"p","a","s","s">>
SALT_1 == "salt1"
SALT_2 == "salt2"

\* Usernames as callers type them (create_account uppercases them).
DirUsernames == {ALICE, ALICEX, <<"b","o","b">>, RNDBOT7, PCT_AB, BANG_PCT_A, <<"A","B">>}

\* Search strings as callers type them.
Queries == {<<>>, <<"a","l","i","c","e">>, <<"B">>, <<"%">>}

\* The optional category argument of the listing and search requests.
CategoryFilters == {None, Some("bot"), Some("friend")}

\* Request bodies of PUT /accounts/{id}/meta, as <<category, tags, notes>>.
DirMetaBodies ==
    { <<Some("friend"), None, None>>,
      <<None, Some(<<"pvp">>), Some("hi")>> }

\* The usernames and request bodies of the metadata specification: every
\* field omitted, supplied, and supplied empty; a category outside CATEGORIES.
MetaUsernames == {BOB, RNDBOT7}

MetaBodies ==
    { <<c, t, n>> : c \in {None, Some("friend"), Some("wizard"), Some("")},
                    t \in {None, Some(<<"pvp">>), Some(<<>>)},
                    n \in {None, Some("hi"), Some("")} }

-----------------------------------------------------------------------------
(* The two stores *)

\* SELECT ... FROM account WHERE id = %s
get_account(account_id) ==
    IF \E i \in 1..Len(account) : account[i].id = account_id
    THEN Some(account[CHOOSE i \in 1..Len(account) : account[i].id = account_id])
    ELSE None

\* SELECT * FROM account_meta WHERE account_id = $1
get_account_meta(account_id) ==
    IF \E r \in account_meta : r.account_id = account_id
    THEN Some(CHOOSE r \in account_meta : r.account_id = account_id)
    ELSE None

\* meta_map.get(account['id'], {}).get(field, default)
MetaField(account_id, field, default) ==
    IF IsNone(get_account_meta(account_id))
    THEN default
    ELSE Get(get_account_meta(account_id))[field]

\* if category and account['category'] != category
CategoryDiffers(category, entry) ==
    /\ ~IsNone(category)
    /\ Get(category) # ""
    /\ entry.category # Get(category)

-----------------------------------------------------------------------------
(* get_accounts_with_meta *)

\* The merge of one account row with its metadata in get_accounts_with_meta.
ListEntry(a) ==
    [ id       |-> a.id,
      username |-> a.username,
      category |-> MetaField(a.id, "category",
                             IF IsBotName(a.username) THEN "bot" ELSE "unknown"),
      tags     |-> MetaField(a.id, "tags", <<>>),
      notes    |-> MetaField(a.id, "notes", "") ]

\* ListSelect with the include_bots branch lost: the unfiltered SELECT always.
ListSelect_NoBotFilter(include_bots) == account

\* ListSelect with ORDER BY id DESC.
ListSelect_Descending(include_bots) ==
    LET rows == SelectSeq(account, LAMBDA a : include_bots \/ ~LikeBot(a.username))
    IN  [i \in 1..Len(rows) |-> rows[Len(rows) + 1 - i]]

\* The SELECT of get_accounts_with_meta: every account, or those NOT LIKE
\* 'RNDBOT%%', ORDER BY id.
ListSelect(include_bots) ==
    SelectSeq(account, LAMBDA a : include_bots \/ ~LikeBot(a.username))

\* The rows kept by the category test of get_accounts_with_meta.
ListKeeps(category, entry) == ~CategoryDiffers(category, entry)

get_accounts_with_meta(include_bots, category) ==
    LET rows    == ListSelect(include_bots)
        entries == [i \in 1..Len(rows) |-> ListEntry(rows[i])]
    IN  SelectSeq(entries, LAMBDA e : ListKeeps(category, e))

-----------------------------------------------------------------------------
(* search_accounts *)

\* The WHERE clause search_accounts builds: the three LIKE patterns around
\* query.upper() when the query is non-empty, and NOT LIKE 'RNDBOT%' unless
\* bots are included. The query text is placed in the patterns as it is.
SearchWhere(username, query, include_bots) ==
    LET q == Upper(query) IN
    /\ \/ query = <<>>
       \/ Like(username, <<"%">> \o q \o <<"%">>)
       \/ Like(username, q \o <<"%">>)
       \/ Like(username, <<"%">> \o q)
    /\ include_bots \/ ~LikeBot(username)

\* ORDER BY CASE WHEN username = %s THEN 0 WHEN username LIKE %s THEN 1 ELSE 2 END
SearchRank(username, query) ==
    LET q == Upper(query) IN
    IF username = q THEN 0
    ELSE IF Like(username, q \o <<"%">>) THEN 1
    ELSE 2

\* Row a sorts before row b under ORDER BY <rank>, username (rows of equal
\* username, which the table does not hold here, are left in id order).
SearchBefore(a, b, query) ==
    LET ra == SearchRank(a.username, query)
        rb == SearchRank(b.username, query)
    IN  \/ ra < rb
        \/ ra = rb /\ StrLess(a.username, b.username)
        \/ ra = rb /\ a.username = b.username /\ a.id < b.id

RECURSIVE OrderRows(_, _)
\* The rows of the set S as the ORDER BY clause returns them.
OrderRows(S, query) ==
    IF S = {} THEN <<>>
    ELSE LET first == CHOOSE a \in S :
                        \A b \in S \ {a} : SearchBefore(a, b, query)
         IN  <<first>> \o OrderRows(S \ {first}, query)

\* The SELECT of search_accounts.
SearchSelect(query, include_bots) ==
    OrderRows({ account[i] : i \in
                  { j \in 1..Len(account) :
                      SearchWhere(account[j].username, query, include_bots) } },
              query)

\* The merge of one account row with its metadata in search_accounts.
SearchEntry(a) ==
    [ id       |-> a.id,
      username |-> a.username,
      category |-> MetaField(a.id, "category", "unknown"),
      tags     |-> MetaField(a.id, "tags", <<>>),
      notes    |-> MetaField(a.id, "notes", "") ]

\* The rows kept by the category test of search_accounts: a differing
\* category is passed over when the filter is 'bot' and the name is a bot's.
SearchKeeps(category, entry) ==
    \/ ~CategoryDiffers(category, entry)
    \/ Get(category) = "bot" /\ IsBotName(entry.username)

\* cur.execute(sql, params) formats the statement with the % operator. With
\* include_bots false the statement text holds  NOT LIKE 'RNDBOT%' , whose
\* %' is no conversion, and the formatting raises ValueError before any
\* statement reaches the database.
SearchRaises(include_bots) == ~include_bots

\* search_accounts: [raised, rows]
search_accounts(query, category, include_bots) ==
    IF SearchRaises(include_bots)
    THEN [raised |-> TRUE, rows |-> <<>>]
    ELSE LET rows    == SearchSelect(query, include_bots)
             entries == [i \in 1..Len(rows) |-> SearchEntry(rows[i])]
         IN  [raised |-> FALSE,
              rows   |-> SelectSeq(entries, LAMBDA e : SearchKeeps(category, e))]

-----------------------------------------------------------------------------
(* set_account_meta and create_account (service) *)

\* MetaUpdate assigning every column, an omitted one to its default.
MetaUpdate_ResetsOmitted(existing, category, tags, notes) ==
    [ existing EXCEPT
        !.category = IF IsNone(category) THEN "unknown" ELSE Get(category),
        !.tags     = IF IsNone(tags) THEN <<>> ELSE Get(tags),
        !.notes    = IF IsNone(notes) THEN "" ELSE Get(notes) ]

\* The UPDATE of set_account_meta: only the supplied columns are assigned.
MetaUpdate(existing, category, tags, notes) ==
    [ existing EXCEPT
        !.category = IF IsNone(category) THEN @ ELSE Get(category),
        !.tags     = IF IsNone(tags) THEN @ ELSE Get(tags),
        !.notes    = IF IsNone(notes) THEN @ ELSE Get(notes) ]

\* Python truthiness of an optional argument: neither None nor empty.
Truthy(x, empty) == ~IsNone(x) /\ Get(x) # empty

\* MetaInsert naming only (account_id, username): the column defaults apply.
MetaInsert_DefaultsOnly(account_id, username, category, tags, notes) ==
    [ account_id |-> account_id,
      username   |-> username,
      category   |-> "unknown",
      tags       |-> <<>>,
      notes      |-> "" ]

\* The INSERT of set_account_meta: category or 'unknown', tags or [], notes or ''.
MetaInsert(account_id, username, category, tags, notes) ==
    [ account_id |-> account_id,
      username   |-> username,
      category   |-> IF Truthy(category, "") THEN Get(category) ELSE "unknown",
      tags       |-> IF Truthy(tags, <<>>) THEN Get(tags) ELSE <<>>,
      notes      |-> IF Truthy(notes, "") THEN Get(notes) ELSE "" ]

\* set_account_meta (service): the row it returns, which is the row it wrote
\* (or the existing row when no field was supplied).
MetaResult(account_id, username, category, tags, notes) ==
    IF IsNone(get_account_meta(account_id))
    THEN MetaInsert(account_id, username, category, tags, notes)
    ELSE MetaUpdate(Get(get_account_meta(account_id)), category, tags, notes)

\* The table after set_account_meta: one row inserted when the SELECT found
\* none, else UPDATE ... WHERE account_id = $1.
MetaWrite(account_id, username, category, tags, notes) ==
    IF IsNone(get_account_meta(account_id))
    THEN account_meta \cup { MetaInsert(account_id, username, category, tags, notes) }
    ELSE { IF r.account_id = account_id
           THEN MetaUpdate(r, category, tags, notes)
           ELSE r : r \in account_meta }

\* StampWrite whose UPDATE leaves updated_at alone.
StampWrite_InsertOnly(account_id, category, tags, notes) ==
    IF IsNone(get_account_meta(account_id))
    THEN meta_updated_at \cup
            {[account_id |-> account_id, created_at |-> clock, updated_at |-> clock]}
    ELSE meta_updated_at

\* The timestamp columns after set_account_meta: the INSERT's row takes the
\* column defaults NOW(); the UPDATE sets updated_at = NOW() when it assigns
\* at least one column; with no column to assign there is no UPDATE.
StampWrite(account_id, category, tags, notes) ==
    IF IsNone(get_account_meta(account_id))
    THEN meta_updated_at \cup
            {[account_id |-> account_id, created_at |-> clock, updated_at |-> clock]}
    ELSE IF IsNone(category) /\ IsNone(tags) /\ IsNone(notes)
    THEN meta_updated_at
    ELSE { IF t.account_id = account_id THEN [t EXCEPT !.updated_at = clock] ELSE t :
              t \in meta_updated_at }

\* SELECT id FROM account WHERE username = %s
\* UsernameExists finding no row, whatever the table holds.
UsernameExists_Never(username_upper) == FALSE

UsernameExists(username_upper) ==
    \E i \in 1..Len(account) : account[i].username = username_upper


-----------------------------------------------------------------------------
(* Request handlers (backend/routers/accounts.py) *)

\* The request slots of concurrent create_account calls, and a free slot.
CreateSlots == {1, 2}
NotCreating == [pc |-> "none", username |-> <<>>, password |-> <<>>, email |-> ""]

MaxClock == 3

\* The request slots of concurrent set_account_meta calls, and a free slot.
MetaSlots == {1, 2}
NotSetting ==
    [pc |-> "none", account_id |-> 0, username |-> <<>>, category |-> <<>>,
     tags |-> <<>>, notes |-> <<>>, existing |-> <<>>, result |-> ""]

\* The callers of get_pool, and a caller that has not called.
PoolCallers == {1, 2}
NotGetting == [pc |-> "none", got |-> 0]

\* The connections of the MySQL pool, and the database they are opened on.
PoolConnections == {1, 2}
AC_MYSQL_DB == "acore_auth"

\* No health snapshot computed yet.
NoHealth == [checks |-> <<>>, results |-> <<>>]

\* The websocket connections, and a connection not yet made.
Connections == {"A", "B"}
NotConnected ==
    [pc |-> "none", closed |-> FALSE, pending |-> <<>>, sent |-> <<>>, end |-> ""]

NoResponse == [op |-> "none", args |-> <<>>, status |-> 0, body |-> <<>>]

\* NewAccountRow with the password kept in a column of its own.
NewAccountRow_StoresPassword(username, password, email, salt) ==
    [ id       |-> Len(account) + 1,
      username |-> Upper(username),
      salt     |-> salt,
      verifier |-> CreateVerifier(Upper(username), Upper(password), salt),
      email    |-> email,
      password |-> password ]

\* The row create_account inserts.
NewAccountRow(username, password, email, salt) ==
    [ id       |-> Len(account) + 1,
      username |-> Upper(username),
      salt     |-> salt,
      verifier |-> CreateVerifier(Upper(username), Upper(password), salt),
      email    |-> email ]

\* POST /accounts. The row's id is the table's next AUTO_INCREMENT value; the
\* username is stored uppercased, so every stored username is upper case and
\* the case-insensitive comparisons of the column are exact comparisons here.
\* salt is the value secrets.token_bytes(32) returns in this call.
CreateAccount(username, password, email, salt) ==
    /\ IF Len(username) < 3
       THEN /\ resp' = [op |-> "create_account", args |-> <<username, password, email>>,
                        status |-> 400, body |-> "Username too short"]
            /\ UNCHANGED account
       ELSE IF Len(password) < 4
       THEN /\ resp' = [op |-> "create_account", args |-> <<username, password, email>>,
                        status |-> 400, body |-> "Password too short"]
            /\ UNCHANGED account
       ELSE IF UsernameExists(Upper(username))
       THEN /\ resp' = [op |-> "create_account", args |-> <<username, password, email>>,
                        status |-> 400, body |-> "Username already exists"]
            /\ UNCHANGED account
       ELSE /\ account' = Append(account, NewAccountRow(username, password, email, salt))
            /\ resp' = [op |-> "create_account", args |-> <<username, password, email>>,
                        status |-> 200, body |-> Len(account) + 1]
    /\ UNCHANGED <<account_meta, account_access, raceVars, relayVars,
                   meta_updated_at, auxVars>>

\* create_account as the event loop runs it: every await on the connection
\* lets other requests run, so the SELECT that looks for the username and the
\* INSERT that adds the row are separate steps. Each request has its own
\* connection of the pool (autocommit), and no step takes a lock.

\* POST /accounts validates the body and calls the service.
create_account_call(k, username, password, email) ==
    /\ creating[k].pc = "none"
    /\ Len(username) >= 3
    /\ Len(password) >= 4
    /\ creating' = [creating EXCEPT ![k] = [pc |-> "select", username |-> username,
                                            password |-> password, email |-> email]]
    /\ UNCHANGED <<account, account_meta, resp, account_access, relayVars,
                   meta_updated_at, auxVars>>

\* SELECT id FROM account WHERE username = %s; a row found ends the call with
\* "Username already exists".
create_account_select(k) ==
    /\ creating[k].pc = "select"
    /\ creating' = [creating EXCEPT ![k] =
                        IF UsernameExists(Upper(creating[k].username))
                        THEN NotCreating
                        ELSE [creating[k] EXCEPT !.pc = "insert"]]
    /\ UNCHANGED <<account, account_meta, resp, account_access, relayVars,
                   meta_updated_at, auxVars>>

\* salt = secrets.token_bytes(32); the verifier; INSERT INTO account.
create_account_insert(k, salt) ==
    /\ creating[k].pc = "insert"
    /\ Len(account) < MaxAccounts
    /\ account' = Append(account, NewAccountRow(creating[k].username, creating[k].password,
                                                creating[k].email, salt))
    /\ creating' = [creating EXCEPT ![k] = NotCreating]
    /\ UNCHANGED <<account_meta, resp, account_access, relayVars,
                   meta_updated_at, auxVars>>

\* The account row change_password's UPDATE leaves for the row it matches.
ChangedRow(row, new_password, salt) ==
    [row EXCEPT !.salt = salt,
                !.verifier = ChangeVerifier(Upper(row.username), Upper(new_password), salt)]

\* ChangePassword whose UPDATE has no WHERE clause: every row is rewritten.
ChangePassword_NoWhere(account_id, password, salt) ==
    /\ IF Len(password) < 4
       THEN /\ resp' = [op |-> "change_password", args |-> <<account_id, password>>,
                        status |-> 400, body |-> "Password too short (min 4 chars)"]
            /\ UNCHANGED account
       ELSE IF IsNone(get_account(account_id))
       THEN /\ resp' = [op |-> "change_password", args |-> <<account_id, password>>,
                        status |-> 400, body |-> "Account not found"]
            /\ UNCHANGED account
       ELSE /\ account' = [i \in 1..Len(account) |-> ChangedRow(account[i], password, salt)]
            /\ resp' = [op |-> "change_password", args |-> <<account_id, password>>,
                        status |-> 200, body |-> "success"]
    /\ UNCHANGED <<account_meta, account_access, raceVars, relayVars,
                   meta_updated_at, auxVars>>

\* ChangePassword without the test of the row the SELECT returns: the UPDATE
\* runs for any id and the call reports success.
ChangePassword_NoLookup(account_id, password, salt) ==
    /\ IF Len(password) < 4
       THEN /\ resp' = [op |-> "change_password", args |-> <<account_id, password>>,
                        status |-> 400, body |-> "Password too short (min 4 chars)"]
            /\ UNCHANGED account
       ELSE /\ account' = [i \in 1..Len(account) |->
                              IF account[i].id = account_id
                              THEN ChangedRow(account[i], password, salt)
                              ELSE account[i]]
            /\ resp' = [op |-> "change_password", args |-> <<account_id, password>>,
                        status |-> 200, body |-> "success"]
    /\ UNCHANGED <<account_meta, account_access, raceVars, relayVars,
                   meta_updated_at, auxVars>>

\* POST /accounts/{account_id}/password. salt is the value
\* secrets.token_bytes(32) returns in this call.
ChangePassword(account_id, password, salt) ==
    /\ IF Len(password) < 4
       THEN /\ resp' = [op |-> "change_password", args |-> <<account_id, password>>,
                        status |-> 400, body |-> "Password too short (min 4 chars)"]
            /\ UNCHANGED account
       ELSE IF IsNone(get_account(account_id))
       THEN /\ resp' = [op |-> "change_password", args |-> <<account_id, password>>,
                        status |-> 400, body |-> "Account not found"]
            /\ UNCHANGED account
       ELSE /\ account' = [i \in 1..Len(account) |->
                              IF account[i].id = account_id
                              THEN ChangedRow(account[i], password, salt)
                              ELSE account[i]]
            /\ resp' = [op |-> "change_password", args |-> <<account_id, password>>,
                        status |-> 200, body |-> "success"]
    /\ UNCHANGED <<account_meta, account_access, raceVars, relayVars,
                   meta_updated_at, auxVars>>

\* POST /accounts/{account_id}/gmlevel
SetGmLevel(account_id, gm_level, realm_id) ==
    /\ account_access' =
            {r \in account_access : ~(r.id = account_id /\ r.RealmID = realm_id)}
            \cup (IF gm_level > 0
                  THEN {[id |-> account_id, gmlevel |-> gm_level, RealmID |-> realm_id]}
                  ELSE {})
    /\ resp' = [op |-> "set_gm_level", args |-> <<account_id, gm_level, realm_id>>,
                status |-> 200, body |-> "success"]
    /\ UNCHANGED <<account, account_meta, raceVars, relayVars, meta_updated_at,
                   auxVars>>

\* SetAccountMeta without the account lookup: the service is called for any id.
SetAccountMeta_NoLookup(account_id, category, tags, notes) ==
    LET username == IF IsNone(get_account(account_id)) THEN <<>>
                    ELSE Get(get_account(account_id)).username IN
    /\ account_meta' = MetaWrite(account_id, username, category, tags, notes)
    /\ meta_updated_at' = StampWrite(account_id, category, tags, notes)
    /\ resp' = [op |-> "set_account_meta",
                args |-> <<account_id, category, tags, notes>>,
                status |-> 200,
                body |-> MetaResult(account_id, username, category, tags, notes)]
    /\ UNCHANGED <<account, account_access, raceVars, relayVars, auxVars>>

\* PUT /accounts/{account_id}/meta
SetAccountMeta(account_id, category, tags, notes) ==
    /\ IF IsNone(get_account(account_id))
       THEN /\ resp' = [op |-> "set_account_meta",
                        args |-> <<account_id, category, tags, notes>>,
                        status |-> 404, body |-> "Account not found"]
            /\ UNCHANGED <<account_meta, meta_updated_at>>
       ELSE LET username == Get(get_account(account_id)).username IN
            /\ account_meta' = MetaWrite(account_id, username, category, tags, notes)
            /\ meta_updated_at' = StampWrite(account_id, category, tags, notes)
            /\ resp' = [op |-> "set_account_meta",
                        args |-> <<account_id, category, tags, notes>>,
                        status |-> 200,
                        body |-> MetaResult(account_id, username, category, tags, notes)]
    /\ UNCHANGED <<account, account_access, raceVars, relayVars, auxVars>>

\* GET /accounts
ListAccounts(include_bots, category) ==
    /\ resp' = [op |-> "list_accounts", args |-> <<include_bots, category>>,
                status |-> 200,
                body |-> get_accounts_with_meta(include_bots, category)]
    /\ UNCHANGED <<account, account_meta, account_access, raceVars, relayVars,
                   meta_updated_at, auxVars>>

\* GET /accounts/search
SearchAccounts(q, category, include_bots) ==
    LET result == search_accounts(q, category, include_bots) IN
    /\ resp' = [op |-> "search_accounts", args |-> <<q, category, include_bots>>,
                status |-> IF result.raised THEN 500 ELSE 200,
                body |-> result.rows]
    /\ UNCHANGED <<account, account_meta, account_access, raceVars, relayVars,
                   meta_updated_at, auxVars>>

\* GET /accounts with include_bots given or left out of the query string:
\* left out, the router's parameter default applies.
ListAccountsQuery(include_bots, category) ==
    ListAccounts(IF IsNone(include_bots) THEN FALSE ELSE Get(include_bots), category)

\* GET /accounts/search with include_bots given or left out.
SearchAccountsQuery(q, category, include_bots) ==
    SearchAccounts(q, category, IF IsNone(include_bots) THEN FALSE ELSE Get(include_bots))

\* set_account_meta as the event loop runs it: the SELECT that looks for the
\* row and the UPDATE or INSERT that follows are separate awaits, each call on
\* its own connection of the PostgreSQL pool, with no transaction around them.

\* PUT /accounts/{account_id}/meta finds the account and calls the service.
set_account_meta_call(k, account_id, category, tags, notes) ==
    /\ setting[k].pc = "none"
    /\ ~IsNone(get_account(account_id))
    /\ setting' = [setting EXCEPT ![k] =
                       [pc |-> "select", account_id |-> account_id,
                        username |-> Get(get_account(account_id)).username,
                        category |-> category, tags |-> tags, notes |-> notes,
                        existing |-> None, result |-> ""]]
    /\ UNCHANGED <<account, account_meta, resp, account_access, raceVars, relayVars,
                   meta_updated_at, clock, pool, pools, getting, conn_db, health>>

\* existing = SELECT * FROM account_meta WHERE account_id = $1
set_account_meta_select(k) ==
    /\ setting[k].pc = "select"
    /\ setting' = [setting EXCEPT ![k].pc = "write",
                                  ![k].existing = get_account_meta(setting[k].account_id)]
    /\ UNCHANGED <<account, account_meta, resp, account_access, raceVars, relayVars,
                   meta_updated_at, clock, pool, pools, getting, conn_db, health>>

\* if existing: the UPDATE of the supplied columns (none supplied: no
\* statement); else the INSERT, which the primary key on account_id refuses
\* when the table has a row for the account by now.
set_account_meta_write(k) ==
    LET call == setting[k] IN
    /\ call.pc = "write"
    /\ IF IsNone(call.existing) /\ ~IsNone(get_account_meta(call.account_id))
       THEN /\ setting' = [setting EXCEPT ![k].pc = "done",
                                          ![k].result = "UniqueViolationError"]
            /\ UNCHANGED <<account_meta, meta_updated_at>>
       ELSE /\ account_meta' = MetaWrite(call.account_id, call.username, call.category,
                                         call.tags, call.notes)
            /\ meta_updated_at' = StampWrite(call.account_id, call.category,
                                             call.tags, call.notes)
            /\ setting' = [setting EXCEPT ![k].pc = "done", ![k].result = "ok"]
    /\ UNCHANGED <<account, resp, account_access, raceVars, relayVars,
                   clock, pool, pools, getting, conn_db, health>>

\* The router answers and the request slot is free again.
set_account_meta_return(k) ==
    /\ setting[k].pc = "done"
    /\ setting' = [setting EXCEPT ![k] = NotSetting]
    /\ UNCHANGED <<account, account_meta, resp, account_access, raceVars, relayVars,
                   meta_updated_at, clock, pool, pools, getting, conn_db, health>>

\* get_pool as the event loop runs it: the test of the global and the
\* assignment to it are separated by the await of aiomysql.create_pool.

\* if _pool is None: ... else return _pool
get_pool_check(k) ==
    /\ getting[k].pc = "none"
    /\ getting' = [getting EXCEPT ![k] =
                       IF pool = 0 THEN [pc |-> "creating", got |-> 0]
                       ELSE [pc |-> "done", got |-> pool]]
    /\ UNCHANGED <<account, account_meta, resp, account_access, raceVars, relayVars,
                   meta_updated_at, clock, setting, pool, pools, conn_db, health>>

\* _pool = await aiomysql.create_pool(...); return _pool
get_pool_created(k) ==
    /\ getting[k].pc = "creating"
    /\ pools' = pools + 1
    /\ pool' = pools + 1
    /\ getting' = [getting EXCEPT ![k] = [pc |-> "done", got |-> pools + 1]]
    /\ UNCHANGED <<account, account_meta, resp, account_access, raceVars, relayVars,
                   meta_updated_at, clock, setting, conn_db, health>>

\* The caller is done with the pool it was given.
get_pool_return(k) ==
    /\ getting[k].pc = "done"
    /\ getting' = [getting EXCEPT ![k] = NotGetting]
    /\ UNCHANGED <<account, account_meta, resp, account_access, raceVars, relayVars,
                   meta_updated_at, clock, setting, pool, pools, conn_db, health>>

\* The database get_account_characters switches the connection to.
CHARACTERS_DB == "acore_characters"

\* How the character query of get_account_characters can end.
CharacterQueryOutcomes == {"rows", "fails", "cancelled"}

\* The databases the connection can have selected when get_account_characters
\* is over: the USE that switches back is reached only after the query has
\* returned its rows. A cancelled call leaves the connection to aiomysql,
\* which returns it to the pool as it is or replaces it by a new one.
CharactersLeaves(outcome) ==
    CASE outcome = "rows"      -> {AC_MYSQL_DB}
      [] outcome = "fails"     -> {CHARACTERS_DB}
      [] outcome = "cancelled" -> {CHARACTERS_DB, AC_MYSQL_DB}

\* GET /accounts/{account_id}/characters on connection c of the pool. The
\* characters table is not modelled: a query that returns, returns no rows.
GetCharacters(c, account_id, outcome, leaves) ==
    /\ leaves \in CharactersLeaves(outcome)
    /\ conn_db' = [conn_db EXCEPT ![c] = leaves]
    /\ resp' = [op |-> "get_characters", args |-> <<account_id, c, outcome>>,
                status |-> IF outcome = "rows" THEN 200 ELSE 500,
                body |-> IF outcome = "rows" THEN <<>> ELSE outcome]
    /\ UNCHANGED <<account, account_meta, account_access, raceVars, relayVars,
                   meta_updated_at, clock, setting, pool, pools, getting, health>>

\* GET /accounts/{account_id} on connection c of the pool: the SELECT names
\* the table `account` of whatever database the connection has selected.
GetAccount(c, account_id) ==
    /\ resp' = [op |-> "get_account", args |-> <<account_id, c>>,
                status |-> IF conn_db[c] # AC_MYSQL_DB THEN 500
                           ELSE IF IsNone(get_account(account_id)) THEN 404 ELSE 200,
                body |-> IF conn_db[c] # AC_MYSQL_DB
                         THEN "Table 'acore_characters.account' doesn't exist"
                         ELSE IF IsNone(get_account(account_id)) THEN "Account not found"
                         ELSE "account"]
    /\ UNCHANGED <<account, account_meta, account_access, raceVars, relayVars,
                   meta_updated_at, clock, setting, pool, pools, getting, conn_db, health>>

\* What the probes of one health request find: the three ports of
\* AzerothCore open or not, the port checks raising or not, the answer of
\* vLLM's /health, and whether the Redis ping and the PostgreSQL SELECT 1
\* succeed.
VllmAnswers == {"200", "503", "unreachable"}
HealthChecks ==
    [world_up : BOOLEAN, auth_up : BOOLEAN, soap_up : BOOLEAN, ac_error : BOOLEAN,
     vllm : VllmAnswers, redis_up : BOOLEAN, postgresql_up : BOOLEAN]

\* azerothcore.get_server_status: a dict of the three server states, or a
\* dict holding only the error.
get_server_status(ch) ==
    IF ch.ac_error THEN [error |-> "error"]
    ELSE [worldserver |-> IF ch.world_up THEN "running" ELSE "stopped",
          authserver  |-> IF ch.auth_up THEN "running" ELSE "stopped",
          soap        |-> IF ch.soap_up THEN "available" ELSE "unavailable",
          host        |-> "host"]

\* vllm_client.health_check
health_check(ch) ==
    CASE ch.vllm = "200"         -> [status |-> "healthy", url |-> "url"]
      [] ch.vllm = "unreachable" -> [status |-> "unreachable", error |-> "error"]
      [] OTHER                   -> [status |-> "unhealthy", code |-> ch.vllm]

\* The try/except around the Redis ping and around the PostgreSQL SELECT 1.
ProbeStatus(up) ==
    IF up THEN [status |-> "healthy"] ELSE [status |-> "unhealthy", error |-> "error"]

\* The four per-service entries of results.
ServiceResults(ch) ==
    [azerothcore |-> get_server_status(ch),
     vllm        |-> health_check(ch),
     redis       |-> ProbeStatus(ch.redis_up),
     postgresql  |-> ProbeStatus(ch.postgresql_up)]

\* all(s.get("status") in ("healthy", "running")
\*     for s in results.values() if isinstance(s, dict) and "status" in s)
all_healthy(results) ==
    \A k \in DOMAIN results :
        ("status" \in DOMAIN results[k]) => results[k].status \in {"healthy", "running"}

\* get_health: the per-service entries and the overall field.
get_health(ch) ==
    [azerothcore |-> ServiceResults(ch).azerothcore,
     vllm        |-> ServiceResults(ch).vllm,
     redis       |-> ServiceResults(ch).redis,
     postgresql  |-> ServiceResults(ch).postgresql,
     overall     |-> IF all_healthy(ServiceResults(ch)) THEN "healthy" ELSE "degraded"]

\* GET /monitor/health with the probes finding ch.
GetHealth(ch) ==
    /\ health' = [checks |-> ch, results |-> get_health(ch)]
    /\ UNCHANGED <<account, account_meta, resp, account_access, raceVars, relayVars,
                   meta_updated_at, clock, setting, pool, pools, getting, conn_db>>

\* Time passes in the database: NOW() returns a later value.
Tick ==
    /\ clock < MaxClock
    /\ clock' = clock + 1
    /\ UNCHANGED <<account, account_meta, resp, account_access, raceVars, relayVars,
                   meta_updated_at, setting, pool, pools, getting, conn_db, health>>

\* The handler returns: the response has been sent, and the next request is
\* taken. (Handlers are modelled one request at a time.)
Return ==
    /\ resp.op # "none"
    /\ resp' = NoResponse
    /\ UNCHANGED <<account, account_meta, account_access, raceVars, relayVars,
                   meta_updated_at, auxVars>>

Idle == resp.op = "none"

-----------------------------------------------------------------------------
(* The event relay (backend/routers/monitor.py, websocket_monitor).         *)
(* Every connection runs its own handler with its own pubsub subscription   *)
(* to cerebro:events. subs[c].pending is what Redis has sent on c's         *)
(* subscription and the handler has not yet taken from pubsub.listen(), as  *)
(* positions in `published`; subs[c].sent is what the handler has sent on   *)
(* c's websocket; subs[c].end says why the handler ended.                   *)

MaxPublished == 3

\* Texts published on the channel: an event envelope, a JSON value that is no
\* envelope, a text that is not JSON, and arrays nested 100000 deep.
MSG_EVENT  == "{\"type\": \"chat\", \"data\": \"hi\"}"
MSG_NUMBER == "5"
MSG_TEXT   == "not json"
MSG_DEEP   == "[[[[[[ ... 100000 deep"
Messages == {MSG_EVENT, MSG_NUMBER, MSG_TEXT, MSG_DEEP}

\* json.loads(text): the exception it raises, "none" when it returns a value.
JsonLoads(text) ==
    CASE text = MSG_EVENT  -> "none"
      [] text = MSG_NUMBER -> "none"
      [] text = MSG_TEXT   -> "JSONDecodeError"
      [] text = MSG_DEEP   -> "RecursionError"

\* The frames send_json puts on the websocket. src is the position in
\* `published` of the message the frame relays, 0 for the health snapshot.
HealthFrame == [src |-> 0, sends |-> "health", data |-> "get_health()"]
ParsedFrame(n) == [src |-> n, sends |-> "parsed", data |-> published[n]]
RawFrame(n) == [src |-> n, sends |-> "raw", data |-> published[n]]

\* c's subscription is registered with Redis.
Subscribed(c) == subs[c].pc \in {"subscribed", "listening"}

\* The subscriptions to cerebro:events that Redis holds for this process: one
\* for every handler between its pubsub.subscribe and its pubsub.unsubscribe.
UpstreamSubscriptions == {c \in Connections : Subscribed(c)}

\* The handler leaves through its finally block: the subscription is dropped
\* and with it what was buffered for it.
Ended(c, why) == [subs[c] EXCEPT !.pc = "done", !.pending = <<>>, !.end = why]

\* await websocket.accept(); r = await get_redis(); pubsub = r.pubsub()
websocket_accept(c) ==
    /\ subs[c].pc = "none"
    /\ subs' = [subs EXCEPT ![c].pc = "accepted"]
    /\ UNCHANGED <<account, account_meta, resp, account_access, raceVars,
                   published, meta_updated_at, auxVars>>

\* await pubsub.subscribe("cerebro:events")
pubsub_subscribe(c) ==
    /\ subs[c].pc = "accepted"
    /\ subs' = [subs EXCEPT ![c].pc = "subscribed"]
    /\ UNCHANGED <<account, account_meta, resp, account_access, raceVars,
                   published, meta_updated_at, auxVars>>

\* health = await get_health(); await websocket.send_json({"type": "health", ...}).
\* A send on a websocket the client has closed raises, and the handler ends.
send_health(c) ==
    /\ subs[c].pc = "subscribed"
    /\ subs' = [subs EXCEPT ![c] =
                    IF subs[c].closed THEN Ended(c, "closed")
                    ELSE [subs[c] EXCEPT !.pc = "listening",
                                         !.sent = Append(@, HealthFrame)]]
    /\ UNCHANGED <<account, account_meta, resp, account_access, raceVars,
                   published, meta_updated_at, auxVars>>

\* The handler may take a message once it is in the loop over pubsub.listen().
CanRelay_BeforeHealth(c) ==
    subs[c].pc \in {"subscribed", "listening"} /\ subs[c].pending # <<>>

CanRelay(c) == subs[c].pc = "listening" /\ subs[c].pending # <<>>

\* The message pubsub.listen() yields next, taking the newest first.
NextMessage_Newest(pending) ==
    [n |-> pending[Len(pending)], rest |-> SubSeq(pending, 1, Len(pending) - 1)]

\* The message pubsub.listen() yields next, and what stays buffered.
NextMessage(pending) == [n |-> Head(pending), rest |-> Tail(pending)]

\* One turn of the loop over pubsub.listen(): json.loads of the message, then
\* send_json of the value, or of the raw wrapping on JSONDecodeError. Any
\* other exception of json.loads, and the exception of a send on a closed
\* websocket, leave the loop and end the handler.
relay_message(c) ==
    LET m == NextMessage(subs[c].pending)
        raises == JsonLoads(published[m.n]) IN
    /\ CanRelay(c)
    /\ subs' = [subs EXCEPT ![c] =
                    IF raises \notin {"none", "JSONDecodeError"} THEN Ended(c, raises)
                    ELSE IF subs[c].closed THEN Ended(c, "closed")
                    ELSE [subs[c] EXCEPT
                            !.pending = m.rest,
                            !.sent = Append(@, IF raises = "none" THEN ParsedFrame(m.n)
                                               ELSE RawFrame(m.n))]]
    /\ UNCHANGED <<account, account_meta, resp, account_access, raceVars,
                   published, meta_updated_at, auxVars>>

\* r.publish("cerebro:events", message): Redis sends the message on every
\* subscription registered at that moment.
publish_event(message) ==
    /\ Len(published) < MaxPublished
    /\ published' = Append(published, message)
    /\ subs' = [c \in Connections |->
                    IF Subscribed(c)
                    THEN [subs[c] EXCEPT !.pending = Append(@, Len(published) + 1)]
                    ELSE subs[c]]
    /\ UNCHANGED <<account, account_meta, resp, account_access, raceVars,
                   meta_updated_at, auxVars>>

\* The client closes its side of the websocket. The handler reads nothing
\* from the websocket, so it learns of it at its next send.
client_close(c) ==
    /\ subs[c].pc \in {"accepted", "subscribed", "listening"}
    /\ ~subs[c].closed
    /\ subs' = [subs EXCEPT ![c].closed = TRUE]
    /\ UNCHANGED <<account, account_meta, resp, account_access, raceVars,
                   published, meta_updated_at, auxVars>>

-----------------------------------------------------------------------------
(* Specifications *)

Init ==
    /\ account = <<>>
    /\ account_meta = {}
    /\ resp = NoResponse
    /\ account_access = {}
    /\ creating = [k \in CreateSlots |-> NotCreating]
    /\ published = <<>>
    /\ subs = [c \in Connections |-> NotConnected]
    /\ meta_updated_at = {}
    /\ clock = 0
    /\ setting = [k \in MetaSlots |-> NotSetting]
    /\ pool = 0
    /\ pools = 0
    /\ getting = [k \in PoolCallers |-> NotGetting]
    /\ conn_db = [c \in PoolConnections |-> AC_MYSQL_DB]
    /\ health = NoHealth

\* Spec, the directory: accounts are created, annotated, listed and searched.
DirCreate ==
    /\ Idle
    /\ Len(account) < MaxAccounts
    /\ \E u \in DirUsernames : CreateAccount(u, PASS, "", SALT_1)
DirSetMeta ==
    Idle /\ \E id \in 1..MaxAccounts, b \in DirMetaBodies :
                SetAccountMeta(id, b[1], b[2], b[3])
DirList == Idle /\ \E ib \in BOOLEAN, c \in CategoryFilters : ListAccounts(ib, c)
DirSearch ==
    Idle /\ \E q \in Queries, c \in CategoryFilters, ib \in BOOLEAN :
                SearchAccounts(q, c, ib)

Next == DirCreate \/ DirSetMeta \/ DirList \/ DirSearch \/ Return

Spec == Init /\ [][Next]_vars

\* SpecMeta, the metadata store: every shape of PUT /accounts/{id}/meta on
\* existing and missing accounts.
MetaCreate ==
    /\ Idle
    /\ Len(account) < MaxAccounts
    /\ \E u \in MetaUsernames : CreateAccount(u, PASS, "", SALT_1)
MetaSetMeta ==
    Idle /\ \E id \in 1..(MaxAccounts + 1), b \in MetaBodies :
                SetAccountMeta(id, b[1], b[2], b[3])

NextMeta == MetaCreate \/ MetaSetMeta \/ Return

SpecMeta == Init /\ [][NextMeta]_vars

\* SpecList, the listing over a longer table: three accounts, the bot among
\* them, with and without metadata, listed and searched with include_bots
\* given or left out.
MaxListed == 3
ListUsernames == {ALICE, RNDBOT7, BOB}
IncludeBotsParams == {None, Some(TRUE), Some(FALSE)}

ListCreate ==
    /\ Idle
    /\ Len(account) < MaxListed
    /\ \E u \in ListUsernames : CreateAccount(u, PASS, "", SALT_1)
ListSetMeta ==
    Idle /\ \E id \in 1..MaxListed : SetAccountMeta(id, Some("friend"), None, None)
ListQuery ==
    Idle /\ \E ib \in IncludeBotsParams, c \in CategoryFilters : ListAccountsQuery(ib, c)
ListSearch ==
    Idle /\ \E ib \in IncludeBotsParams : SearchAccountsQuery(<<"B">>, None, ib)

NextList == ListCreate \/ ListSetMeta \/ ListQuery \/ ListSearch \/ Return

SpecList == Init /\ [][NextList]_vars

\* SpecStamp, the timestamps of the metadata rows: rows are written at
\* different times, with fields supplied or not.
StampBodies ==
    { <<None, None, None>>, <<Some("friend"), None, None>>,
      <<None, None, Some("hi")>>, <<Some("bot"), Some(<<"pvp">>), None>> }

StampCreate ==
    /\ Idle
    /\ Len(account) < MaxAccounts
    /\ \E u \in MetaUsernames : CreateAccount(u, PASS, "", SALT_1)
StampSetMeta ==
    Idle /\ \E id \in 1..MaxAccounts, b \in StampBodies :
                SetAccountMeta(id, b[1], b[2], b[3])
StampTick == Idle /\ Tick

NextStamp == StampCreate \/ StampSetMeta \/ StampTick \/ Return

SpecStamp == Init /\ [][NextStamp]_vars

\* SpecMetaRace, concurrent metadata writes: two requests at a time on the
\* accounts there are, their steps in any order.
MetaRaceBodies == { <<Some("friend"), None, None>>, <<None, None, Some("hi")>> }

MetaRaceCreate ==
    /\ Idle
    /\ Len(account) < MaxAccounts
    /\ \E u \in MetaUsernames : CreateAccount(u, PASS, "", SALT_1)
MetaRaceCall ==
    \E k \in MetaSlots, id \in 1..MaxAccounts, b \in MetaRaceBodies :
        set_account_meta_call(k, id, b[1], b[2], b[3])
MetaRaceSelect == \E k \in MetaSlots : set_account_meta_select(k)
MetaRaceWrite == \E k \in MetaSlots : set_account_meta_write(k)
MetaRaceReturn == \E k \in MetaSlots : set_account_meta_return(k)

NextMetaRace ==
    \/ MetaRaceCreate \/ Return
    \/ MetaRaceCall \/ MetaRaceSelect \/ MetaRaceWrite \/ MetaRaceReturn

SpecMetaRace == Init /\ [][NextMetaRace]_vars

\* SpecPool, the MySQL pool: callers get the pool concurrently, and requests
\* use its connections one at a time.
PoolCheck == \E k \in PoolCallers : get_pool_check(k)
PoolCreated == \E k \in PoolCallers : get_pool_created(k)
PoolReturn == \E k \in PoolCallers : get_pool_return(k)
PoolCreateAccount ==
    /\ Idle
    /\ Len(account) < MaxAccounts
    /\ CreateAccount(BOB, PASS, "", SALT_1)
PoolGetCharacters ==
    Idle /\ \E c \in PoolConnections, outcome \in CharacterQueryOutcomes,
               leaves \in {AC_MYSQL_DB, CHARACTERS_DB} :
                GetCharacters(c, 1, outcome, leaves)
PoolGetAccount ==
    Idle /\ \E c \in PoolConnections, id \in 1..MaxAccounts : GetAccount(c, id)

NextPool ==
    \/ PoolCheck \/ PoolCreated \/ PoolReturn
    \/ PoolCreateAccount \/ PoolGetCharacters \/ PoolGetAccount \/ Return

SpecPool == Init /\ [][NextPool]_vars

\* SpecHealth, health requests under every combination of probe results.
NextHealth == \E ch \in HealthChecks : GetHealth(ch)

SpecHealth == Init /\ [][NextHealth]_vars

\* SpecRace, concurrent account creation: two requests at a time, their steps
\* in any order.
RaceUsernames == {ALICE, <<"a","l","i","c","e">>, BOB}
RaceSalts == {SALT_1, SALT_2}

RaceCall ==
    \E k \in CreateSlots, u \in RaceUsernames : create_account_call(k, u, PASS, "")
RaceSelect == \E k \in CreateSlots : create_account_select(k)
RaceInsert == \E k \in CreateSlots, salt \in RaceSalts : create_account_insert(k, salt)

NextRace == RaceCall \/ RaceSelect \/ RaceInsert

SpecRace == Init /\ [][NextRace]_vars

\* SpecCred, the credentials: every operation on accounts, one request at a
\* time, with present and missing ids, short and long passwords, and either
\* value of the salt.
PASS_2 == <<"w","o","r","d","s">>
SHORT_PASS == <<"a","b","c">>
CredUsernames == {ALICE, <<"a","l","i","c","e">>, BOB, <<"A","B">>}
CredPasswords == {PASS, PASS_2, SHORT_PASS}
CredSalts == {SALT_1, SALT_2}
CredIds == 1..(MaxAccounts + 1)
EMAIL == "a@b.c"

CredCreate ==
    /\ Idle
    /\ Len(account) < MaxAccounts
    /\ \E u \in CredUsernames, pw \in CredPasswords, salt \in CredSalts :
            CreateAccount(u, pw, EMAIL, salt)
CredChangePassword ==
    Idle /\ \E id \in CredIds, pw \in CredPasswords, salt \in CredSalts :
                ChangePassword(id, pw, salt)
CredSetGmLevel == Idle /\ \E id \in CredIds, gm \in {0, 3} : SetGmLevel(id, gm, -1)
CredSetMeta == Idle /\ \E id \in CredIds : SetAccountMeta(id, Some("friend"), None, None)
CredList == Idle /\ ListAccounts(TRUE, None)
CredSearch == Idle /\ SearchAccounts(<<"a","l">>, None, TRUE)

NextCred ==
    \/ CredCreate \/ CredChangePassword \/ CredSetGmLevel
    \/ CredSetMeta \/ CredList \/ CredSearch \/ Return

SpecCred == Init /\ [][NextCred]_vars

\* SpecRelay, the event relay: connections come, subscribe, are sent the
\* health snapshot and the messages published, and are closed by their
\* clients, in any order.
RelayAccept == \E c \in Connections : websocket_accept(c)
RelaySubscribe == \E c \in Connections : pubsub_subscribe(c)
RelayHealth == \E c \in Connections : send_health(c)
RelayMessage == \E c \in Connections : relay_message(c)
RelayPublish == \E message \in Messages : publish_event(message)
RelayClose == \E c \in Connections : client_close(c)

NextRelay ==
    \/ RelayAccept \/ RelaySubscribe \/ RelayHealth
    \/ RelayMessage \/ RelayPublish \/ RelayClose

SpecRelay == Init /\ [][NextRelay]_vars

\* SpecRelayFair, the relay under the event loop's scheduling: a handler whose
\* next step can run is run. Connecting, publishing and closing are up to the
\* clients and the publishers, and nothing says they happen.
HandlerFairness ==
    \A c \in Connections :
        /\ WF_vars(pubsub_subscribe(c))
        /\ WF_vars(send_health(c))
        /\ WF_vars(relay_message(c))

SpecRelayFair == Init /\ [][NextRelay]_vars /\ HandlerFairness

-----------------------------------------------------------------------------
(* The directory claims, checked under Spec and SpecList *)

Listed == resp.op = "list_accounts" /\ resp.status = 200
Searched == resp.op = "search_accounts" /\ resp.status = 200

\* The arguments of the listing or search request that resp answers.
ReqQuery == resp.args[1]
ReqCategory == resp.args[2]
ReqIncludeBots == IF resp.op = "list_accounts" THEN resp.args[1] ELSE resp.args[3]

Range(f) == { f[i] : i \in DOMAIN f }

\* q occurs in s as a literal substring.
Contains(s, q) ==
    \E i \in 0..(Len(s) - Len(q)) : SubSeq(s, i + 1, i + Len(q)) = q

\* The rank the specification gives a username for a query: 0 equal to the
\* uppercased query, 1 starts with it, 2 contains it (3: none of these).
TierRank(username, query) ==
    LET q == Upper(query) IN
    IF username = q THEN 0
    ELSE IF StartsWith(username, q) THEN 1
    ELSE IF Contains(username, q) THEN 2
    ELSE 3

\* C1: the entries searchAccounts returns are in ascending order of rank
\* (0 exact, 1 prefix, 2 contains) and, within a rank, of username.
C1_SearchOrderedByRank ==
    Searched =>
        \A i, j \in 1..Len(resp.body) :
            LET ri == TierRank(resp.body[i].username, ReqQuery)
                rj == TierRank(resp.body[j].username, ReqQuery)
            IN  (i < j /\ ri < 3 /\ rj < 3) =>
                    \/ ri < rj
                    \/ ri = rj /\ StrLess(resp.body[i].username, resp.body[j].username)

\* C2: for a non-empty query, searchAccounts returns an account exactly when
\* its username contains the uppercased query as a literal substring and the
\* account passes the bot and category filters.
C2_SearchReturnsExactlyLiteralMatches ==
    (Searched /\ ReqQuery # <<>>) =>
        \A i \in 1..Len(account) :
            (\E e \in Range(resp.body) : e.id = account[i].id)
              <=> /\ Contains(account[i].username, Upper(ReqQuery))
                  /\ ReqIncludeBots \/ ~IsBotName(account[i].username)
                  /\ SearchKeeps(ReqCategory, SearchEntry(account[i]))

\* The category the specification resolves for an account: that of its
\* metadata row, else 'bot' for a bot name, else 'unknown'.
ResolvedCategory(a) ==
    IF ~IsNone(get_account_meta(a.id)) THEN Get(get_account_meta(a.id)).category
    ELSE IF IsBotName(a.username) THEN "bot"
    ELSE "unknown"

\* C3: every entry of a listing and of a search reports the category of the
\* account's metadata row, else 'bot' for an RNDBOT name, else 'unknown'.
C3_CategoryResolvedAlike ==
    (Listed \/ Searched) =>
        \A e \in Range(resp.body) :
            e.category = ResolvedCategory([id |-> e.id, username |-> e.username])

\* C4: under a category filter, a listing and a search return only entries
\* of that category, except that with the filter 'bot' every account with a
\* bot name (that the request selects otherwise) is returned whatever the
\* category of its metadata row.
C4_CategoryFilterWithBotException ==
    ((Listed \/ Searched) /\ Truthy(ReqCategory, "")) =>
        /\ \A e \in Range(resp.body) :
              \/ e.category = Get(ReqCategory)
              \/ Get(ReqCategory) = "bot" /\ IsBotName(e.username)
        /\ (Get(ReqCategory) = "bot" /\ ReqIncludeBots) =>
              \A i \in 1..Len(account) :
                  ( /\ IsBotName(account[i].username)
                    /\ Listed \/ SearchWhere(account[i].username, ReqQuery, TRUE) )
                  => \E e \in Range(resp.body) : e.id = account[i].id

\* C5: a search with the empty query returns the entries that a listing with
\* the same includeBots and category returns.
C5_EmptySearchIsListing ==
    (resp.op = "search_accounts" /\ ReqQuery = <<>>) =>
        /\ resp.status = 200
        /\ Range(resp.body) = Range(get_accounts_with_meta(ReqIncludeBots, ReqCategory))

\* C6: with includeBots false neither a listing nor a search returns an
\* account whose username has the bot prefix.
C6_NoBotsWhenExcluded ==
    ((resp.op = "list_accounts" \/ resp.op = "search_accounts") /\ ~ReqIncludeBots) =>
        \A e \in Range(resp.body) : ~IsBotName(e.username)

\* A listing without bots over a store that holds a bot account annotated
\* 'friend' and another account, which the listing returned.
C6_Witness ==
    /\ resp.op = "list_accounts"
    /\ ~ReqIncludeBots
    /\ ReqCategory = Some("friend")
    /\ \E i \in 1..Len(account) :
          /\ IsBotName(account[i].username)
          /\ MetaField(account[i].id, "category", "") = "friend"
    /\ resp.body # <<>>

\* C24: a listing's entries are in ascending order of account id, each the
\* entry of an account of the table; so whatever the filters remove, the
\* entries that remain are in the order the unfiltered listing has them.
C24_ListedInIdOrder ==
    Listed =>
        /\ \A i, j \in 1..Len(resp.body) : i < j => resp.body[i].id < resp.body[j].id
        /\ \A i \in 1..Len(resp.body) :
              \E k \in 1..Len(account) :
                  /\ account[k].id = resp.body[i].id
                  /\ account[k].username = resp.body[i].username

\* A listing without bots of three accounts, the bot second: the first and
\* the third are listed, in that order.
C24_Witness ==
    /\ Listed
    /\ ~ReqIncludeBots
    /\ Len(account) = 3
    /\ IsBotName(account[2].username)
    /\ Len(resp.body) = 2
    /\ resp.body[1].id = 1
    /\ resp.body[2].id = 3

\* C25: a listing whose request leaves include_bots out is the listing with
\* include_bots true.
C25_ListingDefaultIncludesBots ==
    [][ \A c \in CategoryFilters :
            ListAccountsQuery(None, c) => resp'.body = get_accounts_with_meta(TRUE, c) ]_vars

-----------------------------------------------------------------------------
(* The metadata claims, checked under SpecMeta, SpecStamp and SpecMetaRace *)

\* A step in which PUT /accounts/{id}/meta is handled; resp' holds its
\* arguments <<account_id, category, tags, notes>>.
SetMetaStep == resp.op = "none" /\ resp'.op = "set_account_meta"

RowsOf(table, account_id) == { r \in table : r.account_id = account_id }

\* C7: setMetadata on an account that has a metadata row assigns the supplied
\* fields and leaves every omitted field among category, tags, notes, and
\* every other row, as it was.
C7_UpdateKeepsOmittedFields ==
    [][ (SetMetaStep /\ resp'.status = 200 /\ RowsOf(account_meta, resp'.args[1]) # {}) =>
          LET id  == resp'.args[1]
              old == CHOOSE r \in account_meta : r.account_id = id
          IN  /\ Cardinality(RowsOf(account_meta', id)) = 1
              /\ \A new \in RowsOf(account_meta', id) :
                    /\ new.category = IF IsNone(resp'.args[2]) THEN old.category
                                      ELSE Get(resp'.args[2])
                    /\ new.tags = IF IsNone(resp'.args[3]) THEN old.tags
                                  ELSE Get(resp'.args[3])
                    /\ new.notes = IF IsNone(resp'.args[4]) THEN old.notes
                                   ELSE Get(resp'.args[4])
                    /\ new.username = old.username
                    /\ resp'.body = new
              /\ account_meta' \ RowsOf(account_meta', id)
                   = account_meta \ RowsOf(account_meta, id)
      ]_vars

\* setMetadata(tags=['pvp']) alone has been answered with a row whose notes
\* are 'hi' and whose category is 'friend': both were there before the call.
C7_Witness ==
    /\ resp.op = "set_account_meta"
    /\ resp.status = 200
    /\ resp.args[2] = None /\ resp.args[3] = Some(<<"pvp">>) /\ resp.args[4] = None
    /\ resp.body.notes = "hi"
    /\ resp.body.category = "friend"
    /\ resp.body.tags = <<"pvp">>
    /\ resp.body \in account_meta

\* C8 as stated: setMetadata on an account without a metadata row creates
\* exactly one row, whose supplied fields hold the caller's values and whose
\* omitted fields hold 'unknown', the empty tag list and ''.
C8_InsertTakesCallerValues ==
    [][ (SetMetaStep /\ resp'.status = 200 /\ RowsOf(account_meta, resp'.args[1]) = {}) =>
          /\ Cardinality(RowsOf(account_meta', resp'.args[1])) = 1
          /\ \A new \in RowsOf(account_meta', resp'.args[1]) :
                /\ new.category = IF IsNone(resp'.args[2]) THEN "unknown"
                                  ELSE Get(resp'.args[2])
                /\ new.tags = IF IsNone(resp'.args[3]) THEN <<>> ELSE Get(resp'.args[3])
                /\ new.notes = IF IsNone(resp'.args[4]) THEN "" ELSE Get(resp'.args[4])
      ]_vars

\* C8 as amended: as above, except that a category supplied as the empty
\* string is stored as 'unknown'; no other row changes.
C8_InsertTakesValuesOrDefaults ==
    [][ (SetMetaStep /\ resp'.status = 200 /\ RowsOf(account_meta, resp'.args[1]) = {}) =>
          /\ Cardinality(RowsOf(account_meta', resp'.args[1])) = 1
          /\ \A new \in RowsOf(account_meta', resp'.args[1]) :
                /\ new.category = IF IsNone(resp'.args[2]) \/ Get(resp'.args[2]) = ""
                                  THEN "unknown" ELSE Get(resp'.args[2])
                /\ new.tags = IF IsNone(resp'.args[3]) THEN <<>> ELSE Get(resp'.args[3])
                /\ new.notes = IF IsNone(resp'.args[4]) THEN "" ELSE Get(resp'.args[4])
                /\ resp'.body = new
          /\ account_meta' \ RowsOf(account_meta', resp'.args[1]) = account_meta
      ]_vars

\* setMetadata(category='friend', notes='hi') has been answered, for the only
\* account, with the only row of the table, its tags defaulted.
C8_Witness ==
    /\ resp.op = "set_account_meta"
    /\ resp.status = 200
    /\ resp.args[2] = Some("friend") /\ resp.args[3] = None /\ resp.args[4] = Some("hi")
    /\ account_meta = { [ account_id |-> resp.args[1],
                          username   |-> Get(get_account(resp.args[1])).username,
                          category   |-> "friend",
                          tags       |-> <<>>,
                          notes      |-> "hi" ] }

\* C9: the category of every metadata row is one of friend, bot, admin,
\* test, unknown.
C9_CategoryInEnumeration ==
    \A r \in account_meta : r.category \in CATEGORIES

\* C10: setMetadata for an id that is not in the account table answers 404
\* Account not found and leaves the metadata table as it was, and every
\* metadata row is the row of an account of the account table.
C10_MissingAccountRejected ==
    [][ /\ (SetMetaStep /\ IsNone(get_account(resp'.args[1]))) =>
              /\ resp'.status = 404
              /\ resp'.body = "Account not found"
              /\ account_meta' = account_meta
        /\ \A r \in account_meta' :
              \E i \in 1..Len(account') : account'[i].id = r.account_id
      ]_vars

\* setMetadata has been refused for a missing account while the table holds
\* accounts and metadata rows.
C10_Witness ==
    /\ resp.op = "set_account_meta"
    /\ resp.status = 404
    /\ account # <<>>
    /\ account_meta # {}

\* The timestamps of the metadata row of an account.
StampOf(stamps, account_id) == CHOOSE t \in stamps : t.account_id = account_id

\* C26: setMetadata on an account that has a metadata row sets the row's
\* updated_at to the time of the call whenever it changes a field of the row,
\* and leaves created_at as it was; a call that supplies none of category,
\* tags, notes leaves the table and the timestamps as they were and returns
\* the row.
C26_UpdateRefreshesTimestamp ==
    [][ (SetMetaStep /\ resp'.status = 200 /\ RowsOf(account_meta, resp'.args[1]) # {}) =>
          LET id  == resp'.args[1]
              old == CHOOSE r \in account_meta : r.account_id = id
              new == CHOOSE r \in account_meta' : r.account_id = id
          IN  /\ StampOf(meta_updated_at', id).created_at
                    = StampOf(meta_updated_at, id).created_at
              /\ new # old => StampOf(meta_updated_at', id).updated_at = clock
              /\ (IsNone(resp'.args[2]) /\ IsNone(resp'.args[3]) /\ IsNone(resp'.args[4]))
                    => /\ account_meta' = account_meta
                       /\ meta_updated_at' = meta_updated_at
                       /\ resp'.body = old
      ]_vars

\* A row written at one time has had its notes set at a later time.
C26_Witness ==
    /\ resp.op = "set_account_meta"
    /\ resp.status = 200
    /\ resp.args[4] = Some("hi")
    /\ \E t \in meta_updated_at :
          /\ t.account_id = resp.args[1]
          /\ t.created_at < t.updated_at
          /\ t.updated_at = clock

\* C27: concurrent setMetadata calls for an account without a metadata row
\* all complete without error, and the account has at most one row.
C27_ConcurrentInsertsSucceed ==
    /\ \A k \in MetaSlots : setting[k].result # "UniqueViolationError"
    /\ \A r1, r2 \in account_meta : r1.account_id = r2.account_id => r1 = r2

-----------------------------------------------------------------------------
(* The credential claims, checked under SpecRace and SpecCred *)

\* C11: after any interleaving of concurrent account-creation requests, no two
\* rows of the account table have the same uppercased username.
C11_UsernamesUnique ==
    \A i, j \in 1..Len(account) :
        Upper(account[i].username) = Upper(account[j].username) => i = j

\* The request being answered in this step, and what it asked for.
CreateStep == resp.op = "none" /\ resp'.op = "create_account"
PasswordStep == resp.op = "none" /\ resp'.op = "change_password"

\* Some account has this username, letter case aside.
Provisioned(username) ==
    \E i \in 1..Len(account) : Upper(account[i].username) = Upper(username)

\* The request body passes the router's length checks, so the service is called.
ReachesService(username, password) == Len(username) >= 3 /\ Len(password) >= 4

\* C12: account creation with a username whose uppercase form is already
\* provisioned fails, with "Username already exists" when the service is
\* reached, and leaves the account table as it was: no row inserted, no salt
\* or verifier modified.
C12_DuplicateRejected ==
    [][ (CreateStep /\ Provisioned(resp'.args[1]))
            => /\ resp'.status = 400
               /\ account' = account
               /\ ReachesService(resp'.args[1], resp'.args[2])
                     => resp'.body = "Username already exists" ]_vars

C12_Witness ==
    /\ resp.op = "create_account"
    /\ resp.status = 400
    /\ resp.body = "Username already exists"
    /\ resp.args[1] = <<"a","l","i","c","e">>
    /\ \E i \in 1..Len(account) : account[i].username = ALICE

\* The derivation as the SRP6 scheme states it: h1 = SHA1(U ":" P),
\* h2 = SHA1(salt || h1), x = h2 read little-endian, v = 7^x mod N, written as
\* 32 little-endian bytes.
ReferenceVerifier(username_upper, password_upper, salt) ==
    LET h1 == <<"sha1", username_upper \o <<":">> \o password_upper>>
        h2 == <<"sha1", <<"cat", salt, h1>>>>
        x  == <<"int_le", h2>>
        v  == <<"pow", 7, x,
                "894B645E89E1535BBDAD5B8B290650530801B18EBFBF5E8FAB3C82872A3E9BB7">>
    IN  <<"bytes32_le", v>>

\* The step is a successful password change of the account with this id.
ChangesPasswordOf(id) ==
    PasswordStep /\ resp'.status = 200 /\ resp'.args[1] = id

\* C13: no step deletes an account or changes an account's id or username; a
\* step changes an account's salt or verifier only if it is a successful
\* password change of that account's id, and then the new pair is a salt and
\* the verifier derived from the username, the new password and that salt.
C13_CredentialChangedOnlyByPasswordChange ==
    [][ /\ Len(account') >= Len(account)
        /\ \A i \in 1..Len(account) :
              /\ account'[i].id = account[i].id
              /\ account'[i].username = account[i].username
              /\ (account'[i].salt # account[i].salt
                    \/ account'[i].verifier # account[i].verifier)
                    => ChangesPasswordOf(account[i].id)
              /\ ChangesPasswordOf(account[i].id)
                    => /\ account'[i].salt \in CredSalts
                       /\ account'[i].verifier =
                              ReferenceVerifier(account[i].username, Upper(resp'.args[2]),
                                                account'[i].salt) ]_vars

\* A password change has replaced the credential of one of two accounts.
C13_Witness ==
    /\ resp.op = "change_password"
    /\ resp.status = 200
    /\ Len(account) = 2
    /\ account[resp.args[1]].salt = SALT_2
    /\ account[resp.args[1]].verifier = ReferenceVerifier(ALICE, Upper(PASS_2), SALT_2)
    /\ account[3 - resp.args[1]].salt = SALT_1

\* C14: a password change for an id no account has fails, with "Account not
\* found" when the service is reached, and leaves every account as it was.
C14_UnknownIdRejected ==
    [][ (PasswordStep /\ \A i \in 1..Len(account) : account[i].id # resp'.args[1])
            => /\ resp'.status = 400
               /\ account' = account
               /\ Len(resp'.args[2]) >= 4 => resp'.body = "Account not found" ]_vars

C14_Witness ==
    /\ resp.op = "change_password"
    /\ resp.status = 400
    /\ resp.body = "Account not found"
    /\ Len(account) = 1
    /\ resp.args[1] = 2

\* C15: the verifier that account creation stores and the verifier that
\* password change stores are the same function of the uppercased username,
\* the uppercased password and the salt: each is the reference derivation of
\* its triple.
C15_CallSitesAgree ==
    /\ (resp.op = "create_account" /\ resp.status = 200)
          => account[resp.body].verifier =
                ReferenceVerifier(Upper(resp.args[1]), Upper(resp.args[2]),
                                  account[resp.body].salt)
    /\ (resp.op = "change_password" /\ resp.status = 200)
          => /\ account[resp.args[1]].verifier =
                    ReferenceVerifier(account[resp.args[1]].username, Upper(resp.args[2]),
                                      account[resp.args[1]].salt)
             /\ account[resp.args[1]].verifier =
                    CreateVerifier(account[resp.args[1]].username, Upper(resp.args[2]),
                                   account[resp.args[1]].salt)

\* A password change has given an account the verifier its creation gave it
\* (same username, password and salt).
C15_Witness ==
    /\ resp.op = "change_password"
    /\ resp.status = 200
    /\ resp.args = <<1, PASS>>
    /\ account[1].salt = SALT_1
    /\ account[1].verifier = CreateVerifier(BOB, Upper(PASS), SALT_1)

\* The columns an account row has.
AccountColumns == {"id", "username", "salt", "verifier", "email"}

\* C16: the row account creation writes holds the uppercased username, a salt,
\* the verifier derived from them and the password, and the email, and nothing
\* else; the row password change rewrites differs in salt and verifier only;
\* neither writes to the metadata table. The password enters a row only
\* through the hashes of the verifier.
C16_NoPlaintextPersisted ==
    [][ /\ (CreateStep /\ resp'.status = 200)
              => /\ account' = Append(account, account'[Len(account')])
                 /\ LET row == account'[Len(account')] IN
                       /\ DOMAIN row = AccountColumns
                       /\ row.username = Upper(resp'.args[1])
                       /\ row.salt \in CredSalts
                       /\ row.verifier = ReferenceVerifier(row.username,
                                                           Upper(resp'.args[2]), row.salt)
                       /\ row.email = resp'.args[3]
        /\ (PasswordStep /\ resp'.status = 200)
              => \A i \in 1..Len(account) :
                    /\ DOMAIN account'[i] = AccountColumns
                    /\ account'[i].email = account[i].email
                    /\ account'[i].verifier # account[i].verifier
                          => account'[i].verifier =
                                ReferenceVerifier(account[i].username, Upper(resp'.args[2]),
                                                  account'[i].salt)
        /\ (CreateStep \/ PasswordStep) => account_meta' = account_meta ]_vars

\* An account has been created and its password then changed.
C16_Witness ==
    /\ resp.op = "change_password"
    /\ resp.status = 200
    /\ resp.args = <<1, PASS_2>>
    /\ account[1].username = ALICE
    /\ account[1].email = EMAIL
    /\ account[1].verifier = ReferenceVerifier(ALICE, Upper(PASS_2), account[1].salt)

-----------------------------------------------------------------------------
(* The pool claims, checked under SpecPool *)

\* C28: whatever the interleaving of the first calls of get_pool, at most one
\* pool is created, and every caller is given that pool.
C28_SinglePool ==
    /\ pools <= 1
    /\ \A k1, k2 \in PoolCallers :
          (getting[k1].pc = "done" /\ getting[k2].pc = "done")
              => getting[k1].got = getting[k2].got

\* C29: every connection in the pool has the auth database selected, however
\* the calls of get_account_characters that used it ended.
C29_ConnectionsOnAuthDatabase ==
    \A c \in PoolConnections : conn_db[c] = AC_MYSQL_DB

-----------------------------------------------------------------------------
(* The health claim, checked under SpecHealth *)

\* Every checked service is up: no error from the AzerothCore check, world
\* and auth servers running, vLLM answering 200, Redis and PostgreSQL
\* answering.
AllServicesUp(ch) ==
    /\ ~ch.ac_error /\ ch.world_up /\ ch.auth_up
    /\ ch.vllm = "200" /\ ch.redis_up /\ ch.postgresql_up

\* C30: the overall field of a health snapshot is "healthy" only if every
\* checked service is up.
C30_HealthyOnlyIfAllUp ==
    ("overall" \in DOMAIN health.results /\ health.results.overall = "healthy")
        => AllServicesUp(health.checks)

-----------------------------------------------------------------------------
(* The relay claims, checked under SpecRelay *)

\* The frames sent to c after the first.
LiveFrames(c) == IF subs[c].sent = <<>> THEN <<>> ELSE Tail(subs[c].sent)

\* C17: the first frame sent to a connection is the health snapshot, every
\* later frame relays a published message, and those messages are relayed in
\* the order of their publication.
C17_HealthFirstThenPublishOrder ==
    \A c \in Connections :
        subs[c].sent # <<>> =>
            /\ subs[c].sent[1] = HealthFrame
            /\ \A i \in 1..Len(LiveFrames(c)) :
                  /\ LiveFrames(c)[i].sends # "health"
                  /\ LiveFrames(c)[i].src \in 1..Len(published)
            /\ \A i, j \in 1..Len(LiveFrames(c)) :
                  i < j => LiveFrames(c)[i].src < LiveFrames(c)[j].src

\* A message published between the subscription and the snapshot has been
\* relayed after the snapshot, followed by a later one.
C17_Witness ==
    /\ Len(subs["A"].sent) = 3
    /\ subs["A"].sent[1] = HealthFrame
    /\ subs["A"].sent[2].src = 2
    /\ subs["A"].sent[3].src = 3
    /\ subs["B"].sent = <<HealthFrame>>
    /\ Len(subs["B"].pending) = 3

\* C18: the messages relayed to a connection are, at every moment, consecutive
\* messages of the publish sequence, each relayed once and carrying its own
\* text: none is skipped, repeated, merged or out of order.
C18_LiveFramesContiguous ==
    \A c \in Connections :
        \A i \in 1..Len(LiveFrames(c)) :
            /\ LiveFrames(c)[i].src \in 1..Len(published)
            /\ LiveFrames(c)[i].data = published[LiveFrames(c)[i].src]
            /\ i > 1 => LiveFrames(c)[i].src = LiveFrames(c)[i - 1].src + 1

\* A late subscriber has been relayed the second and third message while an
\* early one has been relayed all three.
C18_Witness ==
    /\ Len(LiveFrames("A")) = 3
    /\ LiveFrames("A")[1].src = 1
    /\ LiveFrames("A")[3].src = 3
    /\ Len(LiveFrames("B")) = 2
    /\ LiveFrames("B")[1].src = 2
    /\ LiveFrames("B")[2].src = 3

\* A capacity smaller than the number of messages published.
QueueCapacity == MaxPublished - 1

\* C19: a connection's pending messages never exceed the capacity of its
\* queue: a connection that does not drain is disconnected when its queue is
\* full, while the other connection goes on receiving.
C19_PendingWithinCapacity ==
    \A c \in Connections : Len(subs[c].pending) <= QueueCapacity

\* The published text is an event envelope.
IsEnvelope(text) == text = MSG_EVENT

\* C20: a published message that is no event envelope is relayed to every
\* connection in the loop as a raw frame carrying the text, and no message
\* ends a connection's handler.
C20_MalformedRelayedRaw ==
    \A c \in Connections :
        /\ subs[c].end \in {"", "closed"}
        /\ \A i \in 1..Len(LiveFrames(c)) :
              ~IsEnvelope(published[LiveFrames(c)[i].src])
                  => LiveFrames(c)[i] = RawFrame(LiveFrames(c)[i].src)

\* C21: once the client of a connection has closed its side, the connection's
\* handler eventually ends, whether or not another message is published: in
\* particular it ends in the behaviours in which, with room for more messages,
\* none is published after the close.
C21_ClosedHandlerEnds ==
    \A c \in Connections : \A n \in 0..(MaxPublished - 1) :
        (subs[c].closed /\ Len(published) = n)
            ~> (subs[c].pc = "done" \/ Len(published) > n)

\* C22: the relay never holds more than one subscription to the channel,
\* however many connections there are.
C22_SingleUpstreamSubscription == Cardinality(UpstreamSubscriptions) <= 1

\* A connection's handler is running.
Connected(c) == subs[c].pc \in {"accepted", "subscribed", "listening"}

\* C23: when connections have come and the client of the last of them has
\* closed it, the subscription to the channel is still there.
C23_SubscriptionOutlivesSubscribers ==
    ((\E c \in Connections : subs[c].pc = "done" /\ subs[c].end = "closed")
        /\ \A c \in Connections : ~Connected(c))
        => UpstreamSubscriptions # {}

====
